---------------------------- MODULE Spec2Model ----------------------------
(***************************************************************************)
(* BetterMousekeys (src/main.cpp): a low-level keyboard hook that records  *)
(* key state in atomic flags, and a physics thread that samples the flags  *)
(* to move the OS cursor and to emit mouse-button events.                  *)
(*                                                                         *)
(* Two threads share the flags.  The hook procedure runs on the thread    *)
(* that pumps messages (WinMain); one invocation is one action.  The       *)
(* physics thread is modelled by its position pc; one action is one        *)
(* statement (or a run of statements that touch no flag the hook writes).  *)
(*                                                                         *)
(* Numbers.  float/double values are fixed point: a direction component    *)
(* is an integer number of 1/Unit, a position an integer number of         *)
(* millipixels, a time an integer number of microseconds.                  *)
(***************************************************************************)
EXTENDS Integers, Sequences, FiniteSets, TLC

\* ------------------------------------------------------------ constants

\* Virtual-key codes and window messages (windows.h), as the hook tests them.
VK_CAPITAL == 20
VK_LSHIFT == 160
VK_RSHIFT == 161
VK_LEFT == 37
VK_UP == 38
VK_RIGHT == 39
VK_DOWN == 40
VK_H == 72
VK_J == 74
VK_K == 75
VK_L == 76
LEFT_CLICK_KEY == 90
RIGHT_CLICK_KEY == 88
\* A key the hook has no case for ('A').
VK_A == 65

WM_KEYDOWN == 256
WM_KEYUP == 257
WM_SYSKEYDOWN == 260
WM_SYSKEYUP == 261

\* HC_ACTION: the hook code of a keyboard event the hook may process.
HC_ACTION == 0

MAX_SPEED_PIX_PER_S == 700
UPDATES_PER_SEC == 120

\* 1.0f in fixed point: a direction component counts 1/Unit.
Unit == 10000
\* Millipixels per pixel, microseconds per second.
Milli == 1000
Micro == 1000000
\* 0.05 s, the largest dt a tick uses, in microseconds.
MaxDt == 50000

\* ------------------------------------------------------------ bounds

\* The screen GetSystemMetrics reports, in pixels.
ScreenW == 520
ScreenH == 510

\* How many of the eleven key flags the keyboard holds true at once (its
\* rollover), under the specification of the hook alone.
MaxHeld == 2

\* How many iterations the physics loop runs, under the specification of the
\* cursor movement.
MaxTicks == 2

\* ------------------------------------------------------------ state

VARIABLES
    key_up, key_down, key_left, key_right,
    key_k, key_h, key_j, key_l,
    leftClickPressed, rightClickPressed,
    shiftPressed,
    g_prevLeft, g_prevRight,
    enabled, running,
    call,       \* the hook invocation this step was, or NoCall
    mainpc,     \* WinMain's position
    pc,         \* physicsLoop's position
    px, py,     \* physicsLoop's position of the cursor, millipixels
    dx, dy,     \* physicsLoop's direction, 1/Unit
    dt,         \* physicsLoop's elapsed time of this iteration, microseconds
    curLeft,    \* physicsLoop's sample of leftClickPressed
    ticks,      \* the iterations physicsLoop began, where they are counted
    cursor,     \* the OS cursor, pixels
    sent        \* the mouse events this step handed to SendInput, in order

moveKeys == <<key_up, key_down, key_left, key_right, key_k, key_h, key_j, key_l>>
clickKeys == <<leftClickPressed, rightClickPressed>>
keyState == <<moveKeys, clickKeys, shiftPressed>>
physVars == <<pc, px, py, dx, dy, dt, curLeft>>
prevVars == <<g_prevLeft, g_prevRight>>
vars ==
    <<keyState, prevVars, enabled, running, call, mainpc, physVars, ticks,
      cursor, sent>>

NoCall == [nCode |-> HC_ACTION, wParam |-> 0, vkCode |-> 0, result |-> "none"]


\* ------------------------------------------------------------ the hook

\* IsDown with the key-up messages taken for key-downs as well.
IsDownOrUp(wParam) ==
    \/ wParam = WM_KEYDOWN \/ wParam = WM_SYSKEYDOWN
    \/ wParam = WM_KEYUP \/ wParam = WM_SYSKEYUP

IsDown(wParam) == wParam = WM_KEYDOWN \/ wParam = WM_SYSKEYDOWN

IsUp(wParam) == wParam = WM_KEYUP \/ wParam = WM_SYSKEYUP

\* IsToggleKey with Caps Lock as the only toggle key.
IsToggleKeyCapsOnly(vkCode) == vkCode = VK_CAPITAL

\* The keys whose key-down toggles the controller.
IsToggleKey(vkCode) == vkCode = VK_RSHIFT \/ vkCode = VK_CAPITAL

\* Store without the store of false on a key-up.
StoreDownOnly(old, isDown, isUp) == IF isDown THEN TRUE ELSE old

\* if (isDown) flag.store(true); if (isUp) flag.store(false);
Store(old, isDown, isUp) ==
    IF isUp THEN FALSE ELSE IF isDown THEN TRUE ELSE old

\* The keys the switch of the enabled branch has a case for (each returns 1).
CaseKeys ==
    {VK_UP, VK_DOWN, VK_LEFT, VK_RIGHT, VK_K, VK_J, VK_H, VK_L,
     LEFT_CLICK_KEY, RIGHT_CLICK_KEY, VK_LSHIFT}

\* EnabledResult with no key passed on: 1 whatever the key.
EnabledResultSwallow(vkCode) == "return 1"

\* What the hook returns with the controller enabled: 1 from every case of
\* the switch, CallNextHookEx after the default case.
EnabledResult(vkCode) ==
    IF vkCode \in CaseKeys THEN "return 1" ELSE "CallNextHookEx"

\* The enabled branch: the switch on kb->vkCode.
HookEnabled(vkCode, isDown, isUp) ==
    /\ key_up' = IF vkCode = VK_UP THEN Store(key_up, isDown, isUp) ELSE key_up
    /\ key_down' = IF vkCode = VK_DOWN THEN Store(key_down, isDown, isUp) ELSE key_down
    /\ key_left' = IF vkCode = VK_LEFT THEN Store(key_left, isDown, isUp) ELSE key_left
    /\ key_right' = IF vkCode = VK_RIGHT THEN Store(key_right, isDown, isUp) ELSE key_right
    /\ key_k' = IF vkCode = VK_K THEN Store(key_k, isDown, isUp) ELSE key_k
    /\ key_j' = IF vkCode = VK_J THEN Store(key_j, isDown, isUp) ELSE key_j
    /\ key_h' = IF vkCode = VK_H THEN Store(key_h, isDown, isUp) ELSE key_h
    /\ key_l' = IF vkCode = VK_L THEN Store(key_l, isDown, isUp) ELSE key_l
    /\ leftClickPressed' =
           IF vkCode = LEFT_CLICK_KEY
           THEN Store(leftClickPressed, isDown, isUp) ELSE leftClickPressed
    /\ rightClickPressed' =
           IF vkCode = RIGHT_CLICK_KEY
           THEN Store(rightClickPressed, isDown, isUp) ELSE rightClickPressed
    /\ shiftPressed' =
           IF vkCode = VK_LSHIFT
           THEN Store(shiftPressed, isDown, isUp) ELSE shiftPressed

\* The else branch: nine stores of false; the two click flags are not among them.
HookDisabled ==
    /\ key_up' = FALSE
    /\ key_down' = FALSE
    /\ key_left' = FALSE
    /\ key_right' = FALSE
    /\ key_k' = FALSE
    /\ key_j' = FALSE
    /\ key_h' = FALSE
    /\ key_l' = FALSE
    /\ shiftPressed' = FALSE
    /\ UNCHANGED clickKeys

\* One invocation of the hook procedure, on the thread that pumps messages.
LowLevelKeyboardProc(nCode, wParam, vkCode) ==
    /\ mainpc = "GetMessage"
    /\ sent' = <<>>
    /\ UNCHANGED <<prevVars, running, mainpc, physVars, ticks, cursor>>
    /\ IF nCode < 0
       THEN /\ call' = [nCode |-> nCode, wParam |-> wParam, vkCode |-> vkCode,
                        result |-> "CallNextHookEx"]
            /\ UNCHANGED <<keyState, enabled>>
       ELSE IF IsDown(wParam) /\ IsToggleKey(vkCode)
       THEN /\ enabled' = ~enabled
            /\ call' = [nCode |-> nCode, wParam |-> wParam, vkCode |-> vkCode,
                        result |-> "return 1"]
            /\ UNCHANGED keyState
       ELSE IF enabled
       THEN /\ HookEnabled(vkCode, IsDown(wParam), IsUp(wParam))
            /\ call' = [nCode |-> nCode, wParam |-> wParam, vkCode |-> vkCode,
                        result |-> EnabledResult(vkCode)]
            /\ UNCHANGED enabled
       ELSE /\ HookDisabled
            /\ call' = [nCode |-> nCode, wParam |-> wParam, vkCode |-> vkCode,
                        result |-> "CallNextHookEx"]
            /\ UNCHANGED enabled

\* The keys and messages the keyboard delivers.
AllKeys == CaseKeys \cup {VK_CAPITAL, VK_RSHIFT, VK_A}

AllMessages == {WM_KEYDOWN, WM_KEYUP, WM_SYSKEYDOWN, WM_SYSKEYUP}

\* Hook codes: HC_ACTION, and a negative code (the hook must pass it on).
AllCodes == {HC_ACTION, -1}

\* ------------------------------------------------------------ arithmetic

Abs(a) == IF a < 0 THEN -a ELSE a

Sign(a) == IF a < 0 THEN -1 ELSE IF a > 0 THEN 1 ELSE 0

\* The largest r in lo..hi with r * r <= n (lo * lo <= n), by bisection; mid
\* is bound as an element of a set, so that it is a value at each level.
RECURSIVE ISqrt(_, _, _)
ISqrt(n, lo, hi) ==
    IF lo >= hi THEN lo
    ELSE CHOOSE r \in
             {IF mid * mid <= n THEN ISqrt(n, mid, hi) ELSE ISqrt(n, lo, mid - 1) :
                  mid \in {(lo + hi + 1) \div 2}} : TRUE

\* std::hypot of two direction components, all three in 1/Unit.
Hypot(x, y) == ISqrt(x * x + y * y, 0, 2 * Unit)

\* dx /= speed, in 1/Unit.
Normalize(d, speed) ==
    IF speed > 0 THEN Sign(d) * ((Abs(d) * Unit) \div speed) ELSE d

\* SpeedMult without the speed modifier: 1.0f always.
SpeedMultFull(shift) == Unit

\* shiftPressed ? 0.5f : 1.0f, in 1/Unit.
SpeedMult(shift) == IF shift THEN Unit \div 2 ELSE Unit

\* MAX_SPEED_PIX_PER_S * speedMult * dt: millipixels, from dt in microseconds.
Move(shift, t) ==
    (((MAX_SPEED_PIX_PER_S * t) \div Milli) * SpeedMult(shift)) \div Unit

\* d * move: a direction component times a distance, in millipixels.
Displace(d, move) == Sign(d) * ((Abs(d) * move) \div Unit)

\* Clamp with the screen's size as the upper bound.
ClampToSize(p, screen) ==
    LET lo == IF p < 0 THEN 0 ELSE p
    IN  IF lo > screen * Milli THEN screen * Milli ELSE lo

\* if (p < 0.0) p = 0.0; if (p > screen - 1) p = screen - 1;
Clamp(p, screen) ==
    LET lo == IF p < 0 THEN 0 ELSE p
    IN  IF lo > (screen - 1) * Milli THEN (screen - 1) * Milli ELSE lo

\* std::lround of a position in millipixels: the nearest pixel, halves away
\* from zero.
LRound(p) ==
    IF p >= 0 THEN (p + Milli \div 2) \div Milli
    ELSE -((Milli \div 2 - p) \div Milli)

\* 1.0 / UPDATES_PER_SEC, in microseconds.
targetDt == Micro \div UPDATES_PER_SEC

\* ClampDt without the upper clamp.
ClampDtNoCap(elapsed) == IF elapsed * 1000 < 1 THEN targetDt ELSE elapsed

\* if (dt < 1e-9) dt = targetDt; if (dt > 0.05) dt = 0.05;
\* elapsed is in microseconds, 1e-9 s is one nanosecond.
ClampDt(elapsed) ==
    LET d == IF elapsed * 1000 < 1 THEN targetDt ELSE elapsed
    IN  IF d > MaxDt THEN MaxDt ELSE d

\* Edge by level: a down on every sample that reads true, an up on every
\* sample that reads false after a true one.
EdgeByLevel(prev, cur, down, up) ==
    IF cur THEN <<down>> ELSE IF prev THEN <<up>> ELSE <<>>

\* The events one button's edge gives: down on a rising sample, up on a
\* falling one, none otherwise.
Edge(prev, cur, down, up) ==
    IF cur /\ ~prev THEN <<down>>
    ELSE IF ~cur /\ prev THEN <<up>>
    ELSE <<>>

\* Release without the test of the previous flag.
ReleaseAlways(prev, up) == <<up>>

\* if (g_prev.load()) sendMouseUp(...)
Release(prev, up) == IF prev THEN <<up>> ELSE <<>>

\* ------------------------------------------------------------ physicsLoop

\* Elapsed times the clock may report between two iterations, microseconds:
\* a negative one (high_resolution_clock need not be steady), none, the
\* nominal tick, a stall.
ElapsedSet == {-Milli, 0, targetDt, MaxDt + 10 * Milli}

\* Where the cursor is when the program starts.
Home == [x |-> 500, y |-> 500]

\* Places the mouse puts the OS cursor: inside the screen, and on another
\* monitor (right of the screen and above it).
MousePoints == {Home, [x |-> ScreenW + 30, y |-> -7]}

\* P_While without the test of running: while (true).
P_WhileForever(counted) ==
    /\ pc = "while"
    /\ counted => ticks < MaxTicks
    /\ \E elapsed \in ElapsedSet : dt' = ClampDt(elapsed)
    /\ pc' = "enabled"
    /\ ticks' = IF counted THEN ticks + 1 ELSE ticks
    /\ call' = NoCall
    /\ sent' = <<>>
    /\ UNCHANGED <<keyState, prevVars, enabled, running, mainpc,
                   px, py, dx, dy, curLeft, cursor>>

\* while (running.load()) { dt = ...; -- or leave the loop.  Where the
\* iterations are counted, no more than MaxTicks of them begin.
P_While(counted) ==
    /\ pc = "while"
    /\ IF running
       THEN /\ counted => ticks < MaxTicks
            /\ \E elapsed \in ElapsedSet : dt' = ClampDt(elapsed)
            /\ pc' = "enabled"
            /\ ticks' = IF counted THEN ticks + 1 ELSE ticks
       ELSE /\ pc' = "exited"
            /\ UNCHANGED <<dt, ticks>>
    /\ call' = NoCall
    /\ sent' = <<>>
    /\ UNCHANGED <<keyState, prevVars, enabled, running, mainpc,
                   px, py, dx, dy, curLeft, cursor>>

\* if (enabled.load()) { dx = 0.0f; dy = 0.0f; ... } else { ... }
P_Enabled ==
    /\ pc = "enabled"
    /\ IF enabled
       THEN /\ dx' = 0
            /\ dy' = 0
            /\ pc' = "up"
       ELSE /\ pc' = "sync"
            /\ UNCHANGED <<dx, dy>>
    /\ call' = NoCall
    /\ sent' = <<>>
    /\ UNCHANGED <<keyState, prevVars, enabled, running, mainpc,
                   px, py, dt, curLeft, ticks, cursor>>

\* AnyHeld without the load of the second alias.
FirstHeld(a, b) == a

\* a.load() || b.load(): the direction is held through either of its aliases.
AnyHeld(a, b) == a \/ b

\* Gather with an assignment in place of the addition.
GatherAssign(held, d, step) == IF held THEN step ELSE d

\* One line of the direction gathering: if (a.load() || b.load()) d += step;
Gather(held, d, step) == IF held THEN d + step ELSE d

P_Up ==
    /\ pc = "up"
    /\ dy' = Gather(AnyHeld(key_up, key_k), dy, -Unit)
    /\ pc' = "down"
    /\ call' = NoCall
    /\ sent' = <<>>
    /\ UNCHANGED <<keyState, prevVars, enabled, running, mainpc,
                   px, py, dx, dt, curLeft, ticks, cursor>>

P_Down ==
    /\ pc = "down"
    /\ dy' = Gather(AnyHeld(key_down, key_j), dy, Unit)
    /\ pc' = "left"
    /\ call' = NoCall
    /\ sent' = <<>>
    /\ UNCHANGED <<keyState, prevVars, enabled, running, mainpc,
                   px, py, dx, dt, curLeft, ticks, cursor>>

P_Left ==
    /\ pc = "left"
    /\ dx' = Gather(AnyHeld(key_left, key_h), dx, -Unit)
    /\ pc' = "right"
    /\ call' = NoCall
    /\ sent' = <<>>
    /\ UNCHANGED <<keyState, prevVars, enabled, running, mainpc,
                   px, py, dy, dt, curLeft, ticks, cursor>>

P_Right ==
    /\ pc = "right"
    /\ dx' = Gather(AnyHeld(key_right, key_l), dx, Unit)
    /\ pc' = "move"
    /\ call' = NoCall
    /\ sent' = <<>>
    /\ UNCHANGED <<keyState, prevVars, enabled, running, mainpc,
                   px, py, dy, dt, curLeft, ticks, cursor>>

\* Normalize, integrate, clamp, SetCursorPos.
P_Move ==
    /\ pc = "move"
    /\ LET speed == Hypot(dx, dy)
           ndx == Normalize(dx, speed)
           ndy == Normalize(dy, speed)
           move == Move(shiftPressed, dt)
           nx == Clamp(px + Displace(ndx, move), ScreenW)
           ny == Clamp(py + Displace(ndy, move), ScreenH)
       IN  /\ dx' = ndx
           /\ dy' = ndy
           /\ px' = nx
           /\ py' = ny
           /\ cursor' = [x |-> LRound(nx), y |-> LRound(ny)]
    /\ pc' = "curLeft"
    /\ call' = NoCall
    /\ sent' = <<>>
    /\ UNCHANGED <<keyState, prevVars, enabled, running, mainpc, dt, curLeft, ticks>>

\* bool curLeft = leftClickPressed.load();
P_CurLeft ==
    /\ pc = "curLeft"
    /\ curLeft' = leftClickPressed
    /\ pc' = "click"
    /\ call' = NoCall
    /\ sent' = <<>>
    /\ UNCHANGED <<keyState, prevVars, enabled, running, mainpc,
                   px, py, dx, dy, dt, ticks, cursor>>

\* P_Click without the stores of the previous values.
P_ClickNoStore ==
    /\ pc = "click"
    /\ sent' = Edge(g_prevLeft, curLeft, "LEFTDOWN", "LEFTUP")
               \o Edge(g_prevRight, rightClickPressed, "RIGHTDOWN", "RIGHTUP")
    /\ UNCHANGED prevVars
    /\ curLeft' = FALSE
    /\ dt' = 0
    /\ pc' = "while"
    /\ call' = NoCall
    /\ UNCHANGED <<keyState, enabled, running, mainpc, px, py, dx, dy, ticks, cursor>>

\* bool curRight = rightClickPressed.load(); the edges of both buttons; the
\* stores of the previous values; the sleep.  dt and curLeft leave scope.
P_Click ==
    /\ pc = "click"
    /\ sent' = Edge(g_prevLeft, curLeft, "LEFTDOWN", "LEFTUP")
               \o Edge(g_prevRight, rightClickPressed, "RIGHTDOWN", "RIGHTUP")
    /\ g_prevLeft' = curLeft
    /\ g_prevRight' = rightClickPressed
    /\ curLeft' = FALSE
    /\ dt' = 0
    /\ pc' = "while"
    /\ call' = NoCall
    /\ UNCHANGED <<keyState, enabled, running, mainpc, px, py, dx, dy, ticks, cursor>>

\* P_Sync without the test of GetCursorPos's result: curp is copied also when
\* the call failed and left it unset (any point).
P_SyncUnchecked ==
    /\ pc = "sync"
    /\ \E curp \in MousePoints :
           /\ px' = curp.x * Milli
           /\ py' = curp.y * Milli
    /\ dt' = 0
    /\ pc' = "while"
    /\ call' = NoCall
    /\ sent' = <<>>
    /\ UNCHANGED <<keyState, prevVars, enabled, running, mainpc,
                   dx, dy, curLeft, ticks, cursor>>

\* Disabled: if (GetCursorPos(&curp)) { px = curp.x; py = curp.y; }; the sleep.
P_Sync ==
    /\ pc = "sync"
    /\ \E ok \in BOOLEAN :
           IF ok
           THEN /\ px' = cursor.x * Milli
                /\ py' = cursor.y * Milli
           ELSE UNCHANGED <<px, py>>
    /\ dt' = 0
    /\ pc' = "while"
    /\ call' = NoCall
    /\ sent' = <<>>
    /\ UNCHANGED <<keyState, prevVars, enabled, running, mainpc,
                   dx, dy, curLeft, ticks, cursor>>

\* The user moves the mouse.
MouseMoved ==
    /\ mainpc = "GetMessage"
    /\ \E p \in MousePoints : cursor' = p
    /\ cursor' # cursor
    /\ call' = NoCall
    /\ sent' = <<>>
    /\ UNCHANGED <<keyState, prevVars, enabled, running, mainpc, physVars, ticks>>

\* ------------------------------------------------------------ WinMain

\* GetMessage returns 0 (WM_QUIT): the message loop ends.
M_Quit ==
    /\ mainpc = "GetMessage"
    /\ mainpc' = "cleanup"
    /\ call' = NoCall
    /\ sent' = <<>>
    /\ UNCHANGED <<keyState, prevVars, enabled, running, physVars, ticks, cursor>>

\* running.store(false); UnhookWindowsHookEx(g_hHook);
M_Cleanup ==
    /\ mainpc = "cleanup"
    /\ running' = FALSE
    /\ mainpc' = "join"
    /\ call' = NoCall
    /\ sent' = <<>>
    /\ UNCHANGED <<keyState, prevVars, enabled, physVars, ticks, cursor>>

\* phys.join()
M_Join ==
    /\ mainpc = "join"
    /\ pc = "exited"
    /\ mainpc' = "release"
    /\ call' = NoCall
    /\ sent' = <<>>
    /\ UNCHANGED <<keyState, prevVars, enabled, running, physVars, ticks, cursor>>

\* if (g_prevLeft.load()) sendMouseUp(true);
\* if (g_prevRight.load()) sendMouseUp(false); return 0;
M_Release ==
    /\ mainpc = "release"
    /\ sent' = Release(g_prevLeft, "LEFTUP") \o Release(g_prevRight, "RIGHTUP")
    /\ mainpc' = "done"
    /\ call' = NoCall
    /\ UNCHANGED <<keyState, prevVars, enabled, running, physVars, ticks, cursor>>

\* ------------------------------------------------------------ specifications

\* The state after WinMain installed the hook and started the physics
\* thread, and the thread read the cursor at p (ok) or, GetCursorPos
\* failing, took the middle of the screen.
InitProgram(p, ok) ==
    /\ g_prevLeft = FALSE /\ g_prevRight = FALSE
    /\ enabled = FALSE
    /\ running = TRUE
    /\ call = NoCall
    /\ mainpc = "GetMessage"
    /\ pc = "while"
    /\ cursor = p
    /\ px = IF ok THEN p.x * Milli ELSE (ScreenW \div 2) * Milli
    /\ py = IF ok THEN p.y * Milli ELSE (ScreenH \div 2) * Milli
    /\ dx = 0 /\ dy = 0
    /\ dt = 0
    /\ curLeft = FALSE
    /\ ticks = 0
    /\ sent = <<>>

Init ==
    /\ key_up = FALSE /\ key_down = FALSE /\ key_left = FALSE /\ key_right = FALSE
    /\ key_k = FALSE /\ key_h = FALSE /\ key_j = FALSE /\ key_l = FALSE
    /\ leftClickPressed = FALSE /\ rightClickPressed = FALSE
    /\ shiftPressed = FALSE
    /\ InitProgram(Home, TRUE)

Physics(counted) ==
    \/ P_While(counted) \/ P_Enabled
    \/ P_Up \/ P_Down \/ P_Left \/ P_Right \/ P_Move
    \/ P_CurLeft \/ P_Click
    \/ P_Sync

Main == M_Quit \/ M_Cleanup \/ M_Join \/ M_Release

One(b) == IF b THEN 1 ELSE 0

\* The number of key flags that are true.
Held ==
    One(key_up) + One(key_down) + One(key_left) + One(key_right)
    + One(key_k) + One(key_h) + One(key_j) + One(key_l)
    + One(leftClickPressed) + One(rightClickPressed) + One(shiftPressed)

\* The hook alone, under every key, message and hook code.
KeyEvent ==
    \E nCode \in AllCodes, wParam \in AllMessages, vkCode \in AllKeys :
        /\ LowLevelKeyboardProc(nCode, wParam, vkCode)
        /\ Held' <= MaxHeld

SpecHook == Init /\ [][KeyEvent]_vars

\* The whole program, under the keys of one toggle, both clicks and one
\* movement direction.
SysKeys == {VK_CAPITAL, LEFT_CLICK_KEY, RIGHT_CLICK_KEY, VK_RIGHT}

SysMessages == {WM_KEYDOWN, WM_KEYUP}

SysKeyEvent ==
    \E wParam \in SysMessages, vkCode \in SysKeys :
        LowLevelKeyboardProc(HC_ACTION, wParam, vkCode)

Next == SysKeyEvent \/ Physics(FALSE) \/ MouseMoved \/ Main

Spec == Init /\ [][Next]_vars

\* The cursor movement: the physics loop for MaxTicks iterations and the
\* toggle key, from a controller that is Disabled with any movement and
\* speed-modifier flags left true, the cursor anywhere.  The program reaches
\* each of these states: the keys are pressed while Enabled, the toggle
\* disables and clears no flag, the mouse moves the cursor (to another
\* monitor, outside the primary screen's rectangle) and a Disabled tick reads
\* its position.  No key event changes a flag here, so the flags a tick
\* samples are the flags of the state.
StartPoints ==
    {Home, [x |-> -40, y |-> ScreenH + 4], [x |-> ScreenW - 3, y |-> 2]}

InitMove ==
    /\ key_up \in BOOLEAN /\ key_down \in BOOLEAN
    /\ key_left \in BOOLEAN /\ key_right \in BOOLEAN
    /\ key_k \in BOOLEAN /\ key_h \in BOOLEAN
    /\ key_j \in BOOLEAN /\ key_l \in BOOLEAN
    /\ leftClickPressed = FALSE /\ rightClickPressed = FALSE
    /\ shiftPressed \in BOOLEAN
    /\ \E p \in StartPoints, ok \in BOOLEAN : InitProgram(p, ok)

ToggleEvent == LowLevelKeyboardProc(HC_ACTION, WM_KEYDOWN, VK_CAPITAL)

NextMove == ToggleEvent \/ Physics(TRUE)

SpecMove == InitMove /\ [][NextMove]_vars

\* The button emulation with no shutdown: the toggle and both click keys, and
\* the physics loop, a thread of its own that the system schedules again
\* after every sleep (weak fairness of its steps).  The user owes no event.
ClickKeys == {VK_CAPITAL, LEFT_CLICK_KEY, RIGHT_CLICK_KEY}

ClickKeyEvent ==
    \E wParam \in SysMessages, vkCode \in ClickKeys :
        LowLevelKeyboardProc(HC_ACTION, wParam, vkCode)

NextClick == ClickKeyEvent \/ Physics(FALSE)

SpecClick == Init /\ [][NextClick]_vars /\ WF_vars(Physics(FALSE))

\* The button emulation with the shutdown: as above, and WinMain from the end
\* of the message loop on.  Once GetMessage returned 0 WinMain runs on by
\* itself (weak fairness of its steps after M_Quit); when the message loop
\* ends is the user's choice.
Cleanup == M_Cleanup \/ M_Join \/ M_Release

NextShutdown == ClickKeyEvent \/ Physics(FALSE) \/ Main

SpecShutdown ==
    /\ Init /\ [][NextShutdown]_vars
    /\ WF_vars(Physics(FALSE)) /\ WF_vars(Cleanup)

\* ------------------------------------------------------------ properties

\* A step is an invocation of the hook exactly when it leaves call other than
\* NoCall; call' then holds the invocation's arguments and what it returned.
\* HookStep: the step is the hook handling a keyboard event (nCode >= 0).
HookStep == call' # NoCall /\ call'.nCode >= 0

EvDown(c) == c.wParam \in {WM_KEYDOWN, WM_SYSKEYDOWN}

EvUp(c) == c.wParam \in {WM_KEYUP, WM_SYSKEYUP}

EvToggleDown(c) == EvDown(c) /\ c.vkCode \in {VK_CAPITAL, VK_RSHIFT}

\* Each key flag by the key that sets it.
KeyFlag ==
    (VK_UP :> key_up) @@ (VK_DOWN :> key_down)
    @@ (VK_LEFT :> key_left) @@ (VK_RIGHT :> key_right)
    @@ (VK_K :> key_k) @@ (VK_J :> key_j) @@ (VK_H :> key_h) @@ (VK_L :> key_l)
    @@ (LEFT_CLICK_KEY :> leftClickPressed)
    @@ (RIGHT_CLICK_KEY :> rightClickPressed)
    @@ (VK_LSHIFT :> shiftPressed)

\* Every key flag is false.
AllClear == \A k \in DOMAIN KeyFlag : ~KeyFlag[k]

\* C1: a step that takes the controller from Enabled to Disabled leaves every
\* key flag false.
C1_DisableClearsAll == [][(enabled /\ ~enabled') => AllClear']_vars

\* C2: with the controller Enabled, a down or up event on the speed-modifier
\* key sets the flag (down true, up false) and is forwarded.
C2_SpeedModifierForwarded ==
    [][(HookStep /\ enabled /\ call'.vkCode = VK_LSHIFT
        /\ (EvDown(call') \/ EvUp(call')))
       => (/\ shiftPressed' = EvDown(call')
           /\ call'.result = "CallNextHookEx")]_vars

\* C3: a key-down event on a toggle key flips the mode and is swallowed, in
\* either mode and whatever the flags are.
C3_ToggleFlips ==
    [][(HookStep /\ EvToggleDown(call'))
       => (/\ enabled' = ~enabled
           /\ call'.result = "return 1")]_vars

\* C3 witness: a toggle key-down was swallowed and disabled the controller
\* while a movement flag and a click flag were true.
C3_Witness ==
    /\ call # NoCall /\ call.nCode >= 0
    /\ call.vkCode = VK_RSHIFT /\ call.wParam = WM_SYSKEYDOWN
    /\ call.result = "return 1"
    /\ ~enabled /\ key_up /\ leftClickPressed

\* C4: with the controller Disabled, an event other than a toggle key-down
\* is forwarded and leaves every key flag false.
C4_DisabledClearsAll ==
    [][(HookStep /\ ~enabled /\ ~EvToggleDown(call'))
       => (/\ call'.result = "CallNextHookEx"
           /\ AllClear')]_vars

\* C5: with the controller Enabled, a down or up event on a movement key or
\* a click key sets that key's flag (down true, up false), leaves every other
\* flag and the mode as they were, and is swallowed.
C5_KeySetsItsFlag ==
    [][(HookStep /\ enabled /\ ~EvToggleDown(call')
        /\ call'.vkCode \in DOMAIN KeyFlag \ {VK_LSHIFT})
       => LET Set(k, old) == IF k = call'.vkCode THEN EvDown(call') ELSE old
          IN  /\ key_up' = Set(VK_UP, key_up)
              /\ key_down' = Set(VK_DOWN, key_down)
              /\ key_left' = Set(VK_LEFT, key_left)
              /\ key_right' = Set(VK_RIGHT, key_right)
              /\ key_k' = Set(VK_K, key_k)
              /\ key_j' = Set(VK_J, key_j)
              /\ key_h' = Set(VK_H, key_h)
              /\ key_l' = Set(VK_L, key_l)
              /\ leftClickPressed' = Set(LEFT_CLICK_KEY, leftClickPressed)
              /\ rightClickPressed' = Set(RIGHT_CLICK_KEY, rightClickPressed)
              /\ shiftPressed' = shiftPressed
              /\ enabled' = enabled
              /\ call'.result = "return 1"]_vars

\* C5 witness: the up event of one alias (K) was swallowed and cleared its
\* flag while the other alias of the direction (the Up arrow) stayed held.
C5_Witness ==
    /\ call # NoCall /\ call.nCode >= 0
    /\ call.vkCode = VK_K /\ call.wParam = WM_KEYUP
    /\ call.result = "return 1"
    /\ enabled /\ ~key_k /\ key_up

\* How many times event e is in the sequence q.
Count(q, e) == Cardinality({i \in DOMAIN q : q[i] = e})

\* The step is the edge translation of an Enabled tick: physicsLoop goes from
\* the sample of the right button to the sleep.
ClickStep == pc = "click" /\ pc' = "while"

\* The step is the release of the buttons at shutdown.
ReleaseStep == mainpc = "release" /\ mainpc' = "done"

\* C6: the edge translation of an Enabled tick sends, for each button, one
\* button-down when the previous sample is false and the current one true,
\* one button-up when the previous is true and the current false, nothing
\* when they are equal, and stores the current sample as the previous one;
\* no other step of the physics loop sends an event.
C6_EdgeTranslator ==
    [][/\ ClickStep =>
            /\ Count(sent', "LEFTDOWN") = One(~g_prevLeft /\ curLeft)
            /\ Count(sent', "LEFTUP") = One(g_prevLeft /\ ~curLeft)
            /\ Count(sent', "RIGHTDOWN") = One(~g_prevRight /\ rightClickPressed)
            /\ Count(sent', "RIGHTUP") = One(g_prevRight /\ ~rightClickPressed)
            /\ Len(sent') = Count(sent', "LEFTDOWN") + Count(sent', "LEFTUP")
                            + Count(sent', "RIGHTDOWN") + Count(sent', "RIGHTUP")
            /\ g_prevLeft' = curLeft
            /\ g_prevRight' = rightClickPressed
       /\ (~ClickStep /\ ~ReleaseStep) =>
            /\ sent' = <<>>
            /\ UNCHANGED prevVars]_vars

\* C6 witness: one tick sent the left button-up (its samples went true to
\* false) and the right button-down (false to true).
C6_Witness ==
    /\ pc = "while" /\ enabled
    /\ sent = <<"LEFTUP", "RIGHTDOWN">>
    /\ ~g_prevLeft /\ g_prevRight

\* C7: when the controller is enabled again, no key flag is true (no down
\* event has been delivered since), so that a key held when the controller
\* was disabled does not act.
C7_NoStaleKeyOnEnable == [][(~enabled /\ enabled') => AllClear']_vars

\* C8: at shutdown, after the physics loop exited, one button-up is sent for
\* each button whose previous flag is true and none for a button whose
\* previous flag is false.
C8_ShutdownRelease ==
    [][ReleaseStep =>
           /\ pc = "exited"
           /\ Count(sent', "LEFTUP") = One(g_prevLeft)
           /\ Count(sent', "RIGHTUP") = One(g_prevRight)
           /\ Len(sent') = One(g_prevLeft) + One(g_prevRight)]_vars

\* C8 witness: the program ended having released the left button, whose
\* previous flag was true, and not the right one, whose flag was false.
C8_Witness ==
    /\ mainpc = "done" /\ pc = "exited"
    /\ g_prevLeft /\ ~g_prevRight
    /\ sent = <<"LEFTUP">>

\* The step is the integration of an Enabled tick: physicsLoop normalizes the
\* direction, adds the displacement, clamps and writes the OS cursor.
MoveStep == pc = "move" /\ pc' = "curLeft"

\* The position of one axis before the clamp: p plus the tick's displacement
\* along the normalized direction d.
Unclamped(p, d) ==
    LET mult == IF shiftPressed THEN Unit \div 2 ELSE Unit
        dist == (((MAX_SPEED_PIX_PER_S * dt) \div Milli) * mult) \div Unit
        mag == IF d < 0 THEN -d ELSE d
    IN  IF d < 0 THEN p - ((mag * dist) \div Unit) ELSE p + ((mag * dist) \div Unit)

\* p on one axis of a screen of the given size, after the clamp.
Bounded(p, size) ==
    IF p < 0 THEN 0
    ELSE IF p > (size - 1) * Milli THEN (size - 1) * Milli
    ELSE p

\* C9: the position an Enabled tick writes to the OS cursor lies in
\* [0, ScreenW-1] x [0, ScreenH-1], and on each axis the position kept is
\* the boundary value (0 or size-1) where the unclamped position lies
\* beyond that edge, the unclamped position otherwise.
C9_ClampedToScreen ==
    [][MoveStep =>
           /\ cursor'.x \in 0..(ScreenW - 1)
           /\ cursor'.y \in 0..(ScreenH - 1)
           /\ px' = Bounded(Unclamped(px, dx'), ScreenW)
           /\ py' = Bounded(Unclamped(py, dy'), ScreenH)
           /\ px' \in 0..((ScreenW - 1) * Milli)
           /\ py' \in 0..((ScreenH - 1) * Milli)
           /\ cursor'.x * Milli - px' \in (-(Milli \div 2))..(Milli \div 2)
           /\ cursor'.y * Milli - py' \in (-(Milli \div 2))..(Milli \div 2)]_vars

\* C9 witness: a tick that began left of the screen and below it, moving
\* left and down, wrote the corner (0, ScreenH-1).
C9_Witness ==
    /\ pc = "curLeft" /\ enabled
    /\ key_h /\ key_down /\ dx < 0 /\ dy > 0
    /\ px = 0 /\ py = (ScreenH - 1) * Milli
    /\ cursor = [x |-> 0, y |-> ScreenH - 1]

\* C10 as claimed: with both opposing directions of an axis held, the
\* direction component of the axis is zero and the position does not change
\* on the axis.
C10_OpposingKeepPosition ==
    [][MoveStep =>
           /\ ((key_up \/ key_k) /\ (key_down \/ key_j)) => (dy' = 0 /\ py' = py)
           /\ ((key_left \/ key_h) /\ (key_right \/ key_l)) => (dx' = 0 /\ px' = px)]_vars

\* C10 amended: with both opposing directions of an axis held, the direction
\* component of the axis is zero and the displacement on the axis is zero:
\* the position on the axis changes only by the clamp (it stays where it is
\* inside the screen, and becomes the boundary value outside it).
C10_OpposingCancel ==
    [][MoveStep =>
           /\ ((key_up \/ key_k) /\ (key_down \/ key_j))
                  => (dy = 0 /\ dy' = 0 /\ py' = Bounded(py, ScreenH))
           /\ ((key_left \/ key_h) /\ (key_right \/ key_l))
                  => (dx = 0 /\ dx' = 0 /\ px' = Bounded(px, ScreenW))]_vars

\* C10 witness: a tick with all four directions held, through both aliases
\* between them, left the cursor where it was.
C10_Witness ==
    /\ pc = "curLeft" /\ enabled
    /\ key_up /\ key_j /\ key_h /\ key_right
    /\ ~key_k /\ ~key_down /\ ~key_left /\ ~key_l
    /\ dx = 0 /\ dy = 0
    /\ px = Home.x * Milli /\ py = Home.y * Milli
    /\ cursor = Home

\* The keys that are neither a toggle key nor bound to a key flag.
OtherKey(vk) == vk \notin (DOMAIN KeyFlag \cup {VK_CAPITAL, VK_RSHIFT})

\* C11: an event on a key that is neither a toggle key nor bound to a key
\* flag is forwarded in both modes and does not change the mode; with the
\* controller Enabled it changes no key flag.
C11_OtherKeyForwarded ==
    [][(HookStep /\ OtherKey(call'.vkCode))
       => (/\ call'.result = "CallNextHookEx"
           /\ enabled' = enabled
           /\ enabled => UNCHANGED keyState)]_vars

\* C11 witness: with the controller Enabled and a movement flag and a click
\* flag true, the down event of 'A' was forwarded and both flags stayed true.
C11_Witness ==
    /\ call # NoCall /\ call.nCode >= 0
    /\ call.vkCode = VK_A /\ call.wParam = WM_KEYDOWN
    /\ call.result = "CallNextHookEx"
    /\ enabled /\ key_left /\ rightClickPressed

\* The step is the hook handling, with the controller Enabled, a down or up
\* event of key vk.
AliasEvent(vk) ==
    /\ HookStep /\ enabled /\ ~EvToggleDown(call')
    /\ call'.vkCode = vk
    /\ (EvDown(call') \/ EvUp(call'))

ClickKeyUp(vk) == call # NoCall /\ call.vkCode = vk /\ EvUp(call)

\* The hook has just handled the down event of click key vk.
ClickKeyDown(vk) == call # NoCall /\ call.vkCode = vk /\ EvDown(call)

\* C13: with the physics loop scheduled fairly and no shutdown, once a
\* button-down was sent for a button (its previous flag is true) and the up
\* event of the button's click key is then handled, in whichever mode, a
\* button-up for the button is eventually sent, unless a later down event of
\* the key is handled first.
C13_ReleaseSendsUp ==
    /\ (ClickKeyUp(LEFT_CLICK_KEY) /\ g_prevLeft)
           ~> (Count(sent, "LEFTUP") > 0 \/ ClickKeyDown(LEFT_CLICK_KEY))
    /\ (ClickKeyUp(RIGHT_CLICK_KEY) /\ g_prevRight)
           ~> (Count(sent, "RIGHTUP") > 0 \/ ClickKeyDown(RIGHT_CLICK_KEY))

\* C14: the mode is Disabled initially, and a step changes it exactly when
\* the step is the hook handling a toggle-key down event, which flips it; no
\* step of the physics loop or of WinMain and no other key event (a
\* toggle-key up event included) changes it.  By induction on the run the
\* mode is Enabled exactly when an odd number of toggle-key down events have
\* been handled.
C14_ModeFollowsToggles ==
    /\ ~enabled
    /\ [][/\ (HookStep /\ EvToggleDown(call')) => enabled' = ~enabled
          /\ ~(HookStep /\ EvToggleDown(call')) => enabled' = enabled]_vars

\* C14 witness: the controller is Enabled, the physics loop has ticked
\* (it sent the left button-down) and the up event of Caps Lock was just
\* handled without changing the mode.
C14_Witness ==
    /\ call # NoCall /\ call.nCode >= 0
    /\ call.vkCode = VK_CAPITAL /\ call.wParam = WM_KEYUP
    /\ enabled /\ g_prevLeft /\ pc = "move"

\* The step is the physics loop sampling the mode as Disabled.
SampleDisabledStep == pc = "enabled" /\ pc' = "sync"

\* The step is the rest of a Disabled tick: the read of the OS cursor.
SyncStep == pc = "sync" /\ pc' = "while"

\* C15: a tick that samples the mode as Disabled does not write the OS
\* cursor, sends no event and leaves both previous flags as they were; at its
\* end the loop's position is the OS cursor position it read (GetCursorPos
\* failing, nothing is read and the position stays as it was); and no step
\* but the read of a Disabled tick and the integration of an Enabled one
\* changes the position, so the first Enabled tick after a re-enable
\* integrates from the position the last Disabled tick left.
C15_DisabledTick ==
    [][/\ (SampleDisabledStep \/ SyncStep) =>
            /\ cursor' = cursor
            /\ sent' = <<>>
            /\ UNCHANGED prevVars
       /\ SyncStep =>
            \/ px' = cursor.x * Milli /\ py' = cursor.y * Milli
            \/ UNCHANGED <<px, py>>
       /\ (~SyncStep /\ ~MoveStep) => UNCHANGED <<px, py>>]_vars

\* C15 witness: with the left button held down, a Disabled tick read the
\* cursor where the mouse put it, on the other monitor, and the loop's
\* position is that place, outside the screen.
C15_Witness ==
    /\ pc = "while" /\ ~enabled /\ g_prevLeft
    /\ cursor = [x |-> ScreenW + 30, y |-> -7]
    /\ px = cursor.x * Milli /\ py = cursor.y * Milli

\* The step is the physics loop beginning an iteration.
BeginStep == pc = "while" /\ pc' = "enabled"

\* C16: once running is false it stays false and the physics loop begins no
\* iteration (it finishes at most the one it is in); the loop, once exited,
\* stays exited; the buttons are released at shutdown only with the loop
\* exited; and with running false the loop eventually exits and WinMain
\* eventually gets past the join and returns.
C16_ShutdownTerminates ==
    /\ [][/\ ~running => (~running' /\ ~BeginStep)
          /\ pc = "exited" => pc' = "exited"
          /\ ReleaseStep => (pc = "exited" /\ ~running)
          /\ (mainpc \in {"release", "done"}) => pc = "exited"]_vars
    /\ ~running ~> (pc = "exited")
    /\ ~running ~> (mainpc = "done")

\* C16 witness: the shutdown found the loop inside an Enabled iteration that
\* is about to send the right button-down; the loop has not exited and
\* WinMain waits in the join.
C16_Witness ==
    /\ ~running /\ mainpc = "join"
    /\ pc = "click" /\ rightClickPressed /\ ~g_prevRight

\* One step keeps a button's events alternating: it sends at most one event
\* for the button; a button-down only with the previous flag false, and the
\* flag is then true; a button-up only with the previous flag true; with no
\* event for the button the flag stays as it was.  cleared: what holds of
\* the flag after a button-up.
Alternates(prev, prevNext, down, up, cleared) ==
    /\ Count(sent', down) + Count(sent', up) <= 1
    /\ Count(sent', down) = 1 => (~prev /\ prevNext)
    /\ Count(sent', up) = 1 => (prev /\ cleared)
    /\ Count(sent', down) + Count(sent', up) = 0 => prevNext = prev

\* C17 as claimed: both previous flags start false; every step keeps each
\* button's events alternating, the previous flag true after a button-down
\* and false after a button-up (so that it is true exactly when the last
\* event sent was a button-down); the release at shutdown sends the button-up
\* of each button whose flag is true, and nothing is sent after it.
C17_FlagTracksLastEvent ==
    /\ ~g_prevLeft /\ ~g_prevRight
    /\ [][/\ Alternates(g_prevLeft, g_prevLeft', "LEFTDOWN", "LEFTUP", ~g_prevLeft')
          /\ Alternates(g_prevRight, g_prevRight', "RIGHTDOWN", "RIGHTUP",
                        ~g_prevRight')
          /\ ReleaseStep => /\ Count(sent', "LEFTUP") = One(g_prevLeft)
                            /\ Count(sent', "RIGHTUP") = One(g_prevRight)
          /\ mainpc = "done" => sent' = <<>>]_vars

\* C17 amended: as claimed, but the previous flag is false after a
\* button-up of the physics loop only; the release at shutdown sends the
\* button-up and leaves the flag true.
C17_Alternates ==
    /\ ~g_prevLeft /\ ~g_prevRight
    /\ [][/\ Alternates(g_prevLeft, g_prevLeft', "LEFTDOWN", "LEFTUP",
                        IF ReleaseStep THEN g_prevLeft' ELSE ~g_prevLeft')
          /\ Alternates(g_prevRight, g_prevRight', "RIGHTDOWN", "RIGHTUP",
                        IF ReleaseStep THEN g_prevRight' ELSE ~g_prevRight')
          /\ ReleaseStep => /\ Count(sent', "LEFTUP") = One(g_prevLeft)
                            /\ Count(sent', "RIGHTUP") = One(g_prevRight)
          /\ mainpc = "done" => sent' = <<>>]_vars

\* C17 witness: the program ended with both buttons released at shutdown,
\* and both previous flags are still true.
C17_Witness ==
    /\ mainpc = "done" /\ pc = "exited"
    /\ sent = <<"LEFTUP", "RIGHTUP">>
    /\ g_prevLeft /\ g_prevRight

\* The movement directions held, as the physics loop tests them.
MoveUp == AnyHeld(key_up, key_k)

MoveDown == AnyHeld(key_down, key_j)

MoveLeft == AnyHeld(key_left, key_h)

MoveRight == AnyHeld(key_right, key_l)

\* maxSpeed x dt, halved with the speed modifier: millipixels.
Distance ==
    (MAX_SPEED_PIX_PER_S * dt) \div (IF shiftPressed THEN 2 * Milli ELSE Milli)

\* C18: in an Enabled tick with exactly one movement direction held and the
\* clamp not triggered, the position changes on that direction's axis only,
\* by maxSpeed x dt in the direction's sign, by half of it with the speed
\* modifier; from (500, 500) with Right held and dt = 1/120 s the tick writes
\* (506, 500) to the OS cursor.
C18_SingleDirection ==
    [][(/\ MoveStep
        /\ One(MoveUp) + One(MoveDown) + One(MoveLeft) + One(MoveRight) = 1
        /\ px + (One(MoveRight) - One(MoveLeft)) * Distance
               \in 0..((ScreenW - 1) * Milli)
        /\ py + (One(MoveDown) - One(MoveUp)) * Distance
               \in 0..((ScreenH - 1) * Milli))
       => (/\ px' = px + (One(MoveRight) - One(MoveLeft)) * Distance
           /\ py' = py + (One(MoveDown) - One(MoveUp)) * Distance
           /\ cursor' = [x |-> LRound(px'), y |-> LRound(py')]
           /\ (/\ px = 500 * Milli /\ py = 500 * Milli
               /\ MoveRight /\ ~shiftPressed /\ dt = targetDt)
              => cursor' = [x |-> 506, y |-> 500])]_vars

\* C18 witness: from (500, 500), with only the Right arrow held and no speed
\* modifier, a tick of 1/120 s wrote (506, 500).
C18_Witness ==
    /\ pc = "curLeft" /\ enabled /\ dt = targetDt
    /\ key_right /\ ~key_l /\ ~MoveLeft /\ ~MoveUp /\ ~MoveDown
    /\ ~shiftPressed
    /\ px = 505833 /\ py = 500 * Milli
    /\ cursor = [x |-> 506, y |-> 500]

\* The physics loop is inside an iteration: dt is in scope.
InTick == pc \notin {"while", "exited"}

\* maxSpeed x 50 ms: the longest displacement of a tick, millipixels (35 px).
MaxMove == (MAX_SPEED_PIX_PER_S * MaxDt) \div Milli

\* The dt an iteration uses is strictly positive and at most 50 ms: an
\* elapsed time above 50 ms gives 50 ms, one that is not positive 1/120 s,
\* any other itself.
DtClamped ==
    /\ InTick => dt \in 1..MaxDt
    /\ \A e \in ElapsedSet :
           ClampDt(e) = IF e > MaxDt THEN MaxDt
                        ELSE IF e <= 0 THEN Micro \div UPDATES_PER_SEC
                        ELSE e

\* C19 as claimed: the dt of every tick is positive and at most 50 ms, and
\* the position moves at most 35 px on each axis in one tick.
C19_MovesAtMost35 ==
    /\ []DtClamped
    /\ [][MoveStep => /\ Abs(px' - px) <= MaxMove
                      /\ Abs(py' - py) <= MaxMove]_vars

\* C19 amended: the dt of every tick is positive and at most 50 ms, and the
\* displacement of a tick is at most 35 px on each axis: the position moves
\* by at most 35 px where it was inside the screen, and from outside the
\* screen the clamp brings it to the edge, whatever the distance.
C19_DisplacesAtMost35 ==
    /\ []DtClamped
    /\ [][MoveStep =>
              /\ Abs(Unclamped(px, dx') - px) <= MaxMove
              /\ Abs(Unclamped(py, dy') - py) <= MaxMove
              /\ px' = Bounded(Unclamped(px, dx'), ScreenW)
              /\ py' = Bounded(Unclamped(py, dy'), ScreenH)
              /\ px \in 0..((ScreenW - 1) * Milli) => Abs(px' - px) <= MaxMove
              /\ py \in 0..((ScreenH - 1) * Milli) => Abs(py' - py) <= MaxMove]_vars

\* C19 witness: after a stall the tick used 50 ms and, with only Up held and
\* no speed modifier, moved the position up by 35 px.
C19_Witness ==
    /\ pc = "curLeft" /\ enabled /\ dt = MaxDt
    /\ MoveUp /\ ~MoveDown /\ ~MoveLeft /\ ~MoveRight /\ ~shiftPressed
    /\ px = Home.x * Milli /\ py = Home.y * Milli - MaxMove
    /\ cursor = [x |-> Home.x, y |-> Home.y - 35]
============================================================================
